---- MODULE Spec2Model ----
(***************************************************************************)
(* DecisionTreeClassifier of src/decision_tree.ipynb as a state machine.   *)
(*                                                                         *)
(* One classifier instance is modelled from construction on: __init__,     *)
(* then fit (build, and prune when validation data is supplied), then any  *)
(* number of predict calls and direct _prune calls.  The pure methods are  *)
(* operators computed as the code computes them.                           *)
(*                                                                         *)
(* Encoding of Python values                                               *)
(*   feature value  [kind |-> "num", v |-> 2*n]  the number n; v is kept   *)
(*                       in half units so that a midpoint (a+b)/2 of two   *)
(*                       integers is exact                                 *)
(*                  [kind |-> "str", v |-> s]    the string s              *)
(*                  None                         Python's None             *)
(*   label          a string                                               *)
(*   optional list  NoneList, or List(s) for the list s                    *)
(*   float          the IEEE 754 double, [neg, m, e] for (-1)^neg*m*2^e   *)
(*   tree node      the dict of the code as a record; NoTree for None      *)
(*   exception      its class name; "none" when the call returned          *)
(*                                                                         *)
(* Iterating a Python set of strings has no fixed order (string hashing    *)
(* is seeded per process), so every method that depends on it is modelled  *)
(* by the set of all results it can produce.                               *)
(***************************************************************************)
EXTENDS Integers, Sequences, FiniteSets, TLC

VARIABLES
    max_depth,          \* self.max_depth (NoneInt for None)
    min_samples_split,  \* self.min_samples_split
    tree,               \* self.tree
    feature_names,      \* self.feature_names
    X, y,               \* the table and the labels of the last fit call, or
                        \* of the last direct call of _best_split or _gini
    X_val, y_val,       \* the validation data of the last fit call
    built,              \* what _build_tree returned to fit (line 79)
    before,             \* self.tree when the last _prune call started
    samples,            \* the argument of the last predict call
    ret,                \* what the last predict, _best_split or _gini call
                        \* returned
    exc,                \* the exception the last call raised, or "none"
    pc                  \* the last call: "init", "fit", "prune", "predict",
                        \* "best_split", "gini"

vars == <<max_depth, min_samples_split, tree, feature_names, X, y, X_val,
          y_val, built, before, samples, ret, exc, pc>>

---------------------------------------------------------------------------
(* Python values *)

None == [kind |-> "none", v |-> 0]
Num(n) == [kind |-> "num", v |-> 2 * n]
Str(s) == [kind |-> "str", v |-> s]
\* isinstance(v, (int, float))
IsNumber(val) == val.kind = "num"

NoneInt == -1
NoneName == "None"
NoneList == [none |-> TRUE, list |-> <<>>]
List(s) == [none |-> FALSE, list |-> s]
NoTree == [type |-> "none"]
NoSplits == <<>>

Range(s) == {s[i] : i \in DOMAIN s}
Min(a, b) == IF a <= b THEN a ELSE b

\* zip(a, b) stops at the shorter of the two
Zip(a, b) == [i \in 1..Min(Len(a), Len(b)) |-> <<a[i], b[i]>>]

---------------------------------------------------------------------------
(* Bounds and the data of the example *)

\* The most rows of a training table, and of a validation table
MaxRows == 3
MaxValRows == 2
\* The most rows of a table handed to _best_split directly
MaxSplitRows == 8
\* The most rows of a validation table where equal rows matter
MaxCollapseRows == 3
\* The most labels of a vector handed to _gini directly
MaxGiniLen == 5

\* The labels of the training and validation tables, and those of the
\* vectors handed to _gini directly
Labels == {"A", "B"}
GiniLabels == {"A", "B", "C", "D", "E"}

\* The table of the notebook's last cell, lines 897-905 and 911
WeatherX ==
    << <<Str("Sunny"), Str("High"), Num(85), Str("False")>>,
       <<Str("Sunny"), Str("High"), Num(80), Str("True")>>,
       <<Str("Overcast"), None, Num(83), Str("False")>>,
       <<Str("Rainy"), Str("High"), Num(70), Str("False")>>,
       <<Str("Rainy"), Str("Normal"), Num(68), Str("False")>>,
       <<Str("Rainy"), Str("Normal"), Num(65), Str("True")>>,
       <<Str("Overcast"), Str("Normal"), Num(64), Str("True")>>,
       <<Str("Sunny"), Str("Normal"), Num(72), Str("False")>> >>
WeatherY == <<"No", "No", "Yes", "Yes", "Yes", "No", "Yes", "Yes">>
WeatherNames == List(<<"Outlook", "Humidity", "Temperature", "Windy">>)
WeatherSample == <<Str("Rainy"), Str("Normal"), Num(70), Str("False")>>

---------------------------------------------------------------------------
(* float: Python floats are IEEE 754 doubles, modelled bit for bit:        *)
(* (-1)^neg * m * 2^e, where the mantissa m is a natural number of 53 bits *)
(* (2^52 <= m < 2^53), or FZero.  Natural numbers up to 2^112 are tuples   *)
(* of eight limbs of 14 bits, the least significant first.                 *)

Base == 2^14
Limbs == 1..8
NoLimbs == [k \in Limbs |-> 0]
Limb(a, k) == IF k \in Limbs THEN a[k] ELSE 0

\* The limbs of the number whose k-th limb overflows or underflows as cols[k]
Carry(cols) ==
    LET l1 == cols[1]
        l2 == cols[2] + (l1 \div Base)
        l3 == cols[3] + (l2 \div Base)
        l4 == cols[4] + (l3 \div Base)
        l5 == cols[5] + (l4 \div Base)
        l6 == cols[6] + (l5 \div Base)
        l7 == cols[7] + (l6 \div Base)
        l8 == cols[8] + (l7 \div Base)
    IN <<l1 % Base, l2 % Base, l3 % Base, l4 % Base,
         l5 % Base, l6 % Base, l7 % Base, l8 % Base>>

\* a * b for a, b < 2^56
MulBig(a, b) ==
    Carry([k \in Limbs |-> a[1] * Limb(b, k) + a[2] * Limb(b, k - 1)
                           + a[3] * Limb(b, k - 2) + a[4] * Limb(b, k - 3)])
AddBig(a, b) == Carry([k \in Limbs |-> a[k] + b[k]])
\* a - b for a >= b
SubBig(a, b) == Carry([k \in Limbs |-> a[k] - b[k]])
\* 1, 0, -1 as a > b, a = b, a < b
CmpBig(a, b) ==
    LET differ == {k \in Limbs : a[k] # b[k]}
        top == CHOOSE k \in differ : \A j \in differ : j <= k
    IN IF differ = {} THEN 0 ELSE IF a[top] > b[top] THEN 1 ELSE -1
\* The number of bits of a
BitLen(a) ==
    LET used == {k \in Limbs : a[k] # 0}
        top == CHOOSE k \in used : \A j \in used : j <= k
    IN IF used = {} THEN 0
       ELSE 14 * (top - 1) + Cardinality({j \in 0..13 : 2^j <= a[top]})
\* a * 2^s, below 2^112
Shl(a, s) ==
    LET q == s \div 14
        f == 2^(s % 14)
    IN [k \in Limbs |-> ((Limb(a, k - q) * f) % Base) + ((Limb(a, k - q - 1) * f) \div Base)]
\* floor(a / 2^s)
Shr(a, s) ==
    LET q == s \div 14
        f == 2^(s % 14)
        g == 2^(14 - (s % 14))
    IN [k \in Limbs |-> (Limb(a, k + q) \div f) + ((Limb(a, k + q + 1) % f) * g)]
One == [k \in Limbs |-> IF k = 1 THEN 1 ELSE 0]

FZero == [neg |-> FALSE, m |-> NoLimbs, e |-> 0]

\* The double nearest to m * 2^e, or to a little more than that when
\* sticky; a tie goes to the even mantissa.  Renorm: a mantissa that the
\* rounding carried to 54 bits;  RoundUp: q is m without its last s bits and
\* c compares twice those bits with 2^s;  RoundOff: m of len bits
Renorm(neg, q1, e) ==
    IF BitLen(q1) = 54 THEN [neg |-> neg, m |-> Shr(q1, 1), e |-> e + 1]
    ELSE [neg |-> neg, m |-> q1, e |-> e]
RoundUp(neg, q, e, c, sticky) ==
    Renorm(neg,
           IF c > 0 \/ (c = 0 /\ (sticky \/ q[1] % 2 = 1)) THEN AddBig(q, One)
           ELSE q,
           e)
RoundBits(neg, m, e, sticky, s, q) ==
    RoundUp(neg, q, e + s, CmpBig(Shl(SubBig(m, Shl(q, s)), 1), Shl(One, s)),
            sticky)
RoundOff(neg, m, e, sticky, len) ==
    IF len = 0 THEN FZero
    ELSE IF len <= 53
         THEN [neg |-> neg, m |-> Shl(m, 53 - len), e |-> e - (53 - len)]
         ELSE RoundBits(neg, m, e, sticky, len - 53, Shr(m, len - 53))
Round(neg, m, e, sticky) == RoundOff(neg, m, e, sticky, BitLen(m))

\* c / n for integers 0 <= c < 2^14 and 0 < n < 2^16: the quotient of
\* c * 2^84 by n, limb by limb from the top, rounded
FDiv(c, n) ==
    LET t6 == (c % n) * Base
        t5 == (t6 % n) * Base
        t4 == (t5 % n) * Base
        t3 == (t4 % n) * Base
        t2 == (t3 % n) * Base
        t1 == (t2 % n) * Base
    IN Round(FALSE,
             Carry(<<t1 \div n, t2 \div n, t3 \div n, t4 \div n, t5 \div n, t6 \div n, c \div n, 0>>),
             -84, t1 % n # 0)
FInt(c) == FDiv(c, 1)

FMul(a, b) == Round(a.neg # b.neg, MulBig(a.m, b.m), a.e + b.e, FALSE)
FNeg(a) == IF a = FZero THEN a ELSE [a EXCEPT !.neg = ~a.neg]
\* fabs(a) >= fabs(b)
FAbsGe(a, b) ==
    \/ b = FZero
    \/ a # FZero /\ (a.e > b.e \/ (a.e = b.e /\ CmpBig(a.m, b.m) >= 0))
\* big + small for fabs(big) >= fabs(small); x is the mantissa of big at
\* the exponent of small
FAddAligned(big, small, x) ==
    Round(big.neg,
          IF big.neg = small.neg THEN AddBig(x, small.m) ELSE SubBig(x, small.m),
          small.e, FALSE)
FAddOrdered(big, small) ==
    IF small = FZero \/ big.e - small.e > 56 THEN big
    ELSE FAddAligned(big, small, Shl(big.m, big.e - small.e))
FAdd(a, b) == IF FAbsGe(a, b) THEN FAddOrdered(a, b) ELSE FAddOrdered(b, a)
FSub(a, b) == FAdd(a, FNeg(b))
\* a > b
FGt(a, b) ==
    IF a.neg # b.neg THEN b.neg
    ELSE IF a.neg THEN a # b /\ FAbsGe(b, a)
    ELSE a # b /\ FAbsGe(a, b)

(* collections.Counter *)
Count(s, l) == Cardinality({i \in DOMAIN s : s[i] = l})
FirstIndex(s, l) == CHOOSE i \in DOMAIN s : s[i] = l /\ \A j \in 1..(i - 1) : s[j] # l
\* Counter(s).most_common(1)[0][0] for a non-empty s: the greatest count, and
\* among equal counts the key inserted first
MostCommon(s) ==
    CHOOSE l \in Range(s) : \A m \in Range(s) :
        \/ Count(s, m) < Count(s, l)
        \/ Count(s, m) = Count(s, l) /\ FirstIndex(s, l) <= FirstIndex(s, m)

\* list(Counter(s).values()): the count of each label, in the order in which
\* the labels first occur in s
CounterValues(s) ==
    [i \in 1..Cardinality(Range(s)) |->
        Count(s, CHOOSE l \in Range(s) :
                     Cardinality({m \in Range(s) : FirstIndex(s, m) < FirstIndex(s, l)}) = i - 1)]

\* sum(terms) for a sequence of floats, as the interpreter that ran the
\* notebook (Python 3.12.9) computes it: the first term is added to the
\* integer 0 and every further term x by Neumaier's compensated summation,
\* t = f + x; c += (f - t) + x or (x - t) + f, whichever starts with the
\* greater magnitude; f = t; and c is added at the end unless it is 0
NeumaierStep(f, c, x, t) ==
    [f |-> t,
     c |-> FAdd(c, IF FAbsGe(f, x) THEN FAdd(FSub(f, t), x)
                   ELSE FAdd(FSub(x, t), f))]
Neumaier(f, c, x) == NeumaierStep(f, c, x, FAdd(f, x))
Compensated(last) ==
    IF last.c # FZero THEN FAdd(last.f, last.c) ELSE last.f
Sum(terms) ==
    LET acc[i \in 0..Len(terms)] ==
            IF i = 0 THEN [f |-> FZero, c |-> FZero]
            ELSE Neumaier(acc[i - 1].f, acc[i - 1].c, terms[i])
    IN Compensated(acc[Len(terms)])

---------------------------------------------------------------------------
(* _gini *)

\* A power that leaves its argument as it is
Unsquared(x) == x

\* 1 - sum((count / n) ** 2 for count in counts.values()), line 88
Square(x) == FMul(x, x)
Impurity(counts, n) ==
    FSub(FInt(1), Sum([i \in DOMAIN counts |-> Square(FDiv(counts[i], n))]))

\* The label vectors handed to _gini below have at most MostLabels distinct
\* labels and MostRows labels, so that every Counter they give rise to is one
\* of CountTuples; the impurities are computed once for all of them
Most(S) == CHOOSE n \in S : \A m \in S : m <= n
MostLabels == Cardinality(Labels \cup GiniLabels)
MostRows == Most({MaxRows, MaxSplitRows, MaxGiniLen, Len(WeatherX)})
Total(counts) ==
    LET acc[i \in 0..Len(counts)] == IF i = 0 THEN 0 ELSE acc[i - 1] + counts[i]
    IN acc[Len(counts)]
CountTuples ==
    {counts \in UNION {[1..k -> 1..MostRows] : k \in 1..MostLabels} :
         Total(counts) <= MostRows}
Impurities ==
    [counts \in CountTuples |-> Impurity(counts, Total(counts))] @@ <<>>

\* _gini(yy); the sum is empty, and nothing is divided, when yy is empty
GiniOf(counts, n, impurities) ==
    IF counts \in DOMAIN impurities THEN impurities[counts]
    ELSE Impurity(counts, n)
Gini(yy) ==
    IF Len(yy) = 0 THEN FInt(1)
    ELSE GiniOf(CounterValues(yy), Len(yy), Impurities)

\* Lines 158-163 for a table and its two parts, given by their Counters:
\* the gain of a split.  The parts of a split have no more rows than the
\* table, and the gains are computed once for every such triple
Gain(base_gini, len_left, gini_left, len_right, gini_right, n) ==
    LET weighted_gini == FAdd(FMul(FDiv(len_left, n), gini_left),
                              FMul(FDiv(len_right, n), gini_right))
    IN FSub(base_gini, weighted_gini)
GainOf(base, left, right, impurities) ==
    Gain(GiniOf(base, Total(base), impurities),
         Total(left), GiniOf(left, Total(left), impurities),
         Total(right), GiniOf(right, Total(right), impurities),
         Total(left) + Total(right))
SplitTuples == {counts \in CountTuples : Len(counts) <= Cardinality(Labels)}
CountsUpTo(n) == {counts \in SplitTuples : Total(counts) <= n}
Gains ==
    [base \in SplitTuples |->
        [left \in CountsUpTo(Total(base) - 1) |->
            [right \in CountsUpTo(Total(base) - Total(left)) |->
                GainOf(base, left, right, Impurities)] @@ <<>>] @@ <<>>] @@ <<>>
SplitGain(base, left, right, gains) ==
    IF base \in DOMAIN gains /\ left \in DOMAIN gains[base]
       /\ right \in DOMAIN gains[base][left]
    THEN gains[base][left][right]
    ELSE GainOf(base, left, right, Impurities)

---------------------------------------------------------------------------
(* _split_dataset *)

\* A split that sends the rows equal to a string threshold to the right
SplitSideEqualRight(p, feature_index, threshold) ==
    IF Len(p[1]) <= feature_index THEN "IndexError"
    ELSE LET val == p[1][feature_index + 1]
         IN IF val = None THEN "skip"
            ELSE IF IsNumber(threshold)
                 THEN IF ~IsNumber(val) THEN "TypeError"
                      ELSE IF val.v <= threshold.v THEN "left" ELSE "right"
                 ELSE IF val = threshold THEN "right" ELSE "left"

\* What the loop body does with the pair p = <<xi, yi>>: "IndexError",
\* "TypeError", "skip", "left" or "right"
SplitSide(p, feature_index, threshold) ==
    IF Len(p[1]) <= feature_index THEN "IndexError"
    ELSE LET val == p[1][feature_index + 1]
         IN IF val = None THEN "skip"
            ELSE IF IsNumber(threshold)
                 THEN IF ~IsNumber(val) THEN "TypeError"
                      ELSE IF val.v <= threshold.v THEN "left" ELSE "right"
                 ELSE IF val = threshold THEN "left" ELSE "right"

Column(pairs, k) == [i \in DOMAIN pairs |-> pairs[i][k]]

SplitDataset(XX, yy, feature_index, threshold) ==
    LET pairs == Zip(XX, yy)
        Side(p) == SplitSide(p, feature_index, threshold)
        Raises(p) == Side(p) \in {"IndexError", "TypeError"}
        IsLeft(p) == Side(p) = "left"
        IsRight(p) == Side(p) = "right"
        left == SelectSeq(pairs, IsLeft)
        right == SelectSeq(pairs, IsRight)
        bad == SelectSeq(pairs, Raises)
    IN IF bad # <<>>
       THEN [exc |-> Side(bad[1]), X_left |-> <<>>, y_left |-> <<>>,
             X_right |-> <<>>, y_right |-> <<>>]
       ELSE [exc |-> "none",
             X_left |-> Column(left, 1), y_left |-> Column(left, 2),
             X_right |-> Column(right, 1), y_right |-> Column(right, 2)]

---------------------------------------------------------------------------
(* _best_split *)

\* The running best of the search: best_gain, best_feature, best_threshold,
\* best_splits as set at lines 132-134, and the exception that ended it
Best0 ==
    [gain |-> FZero, feature |-> NoneInt, threshold |-> None,
     splits |-> NoSplits, exc |-> "none"]

\* set(values) of line 141
UniqueValues(XX, feature_index) ==
    {XX[i][feature_index + 1] : i \in DOMAIN XX} \ {None}

\* Every order in which the elements of S can be enumerated
Perms(S) ==
    {p \in [1..Cardinality(S) -> S] : \A i, j \in DOMAIN p : i # j => p[i] # p[j]}

RECURSIVE Sorted(_)
\* sorted(unique_values) for numbers
Sorted(S) ==
    IF S = {} THEN <<>>
    ELSE LET least == CHOOSE a \in S : \A b \in S : a.v <= b.v
         IN <<least>> \o Sorted(S \ {least})

Midpoint(a, b) == [kind |-> "num", v |-> (a.v + b.v) \div 2]

\* Lines 144-149: the sequences in which the candidate thresholds of one
\* feature can be enumerated.  Midpoints come in ascending order; a set of
\* observed values comes in any order.
Thresholds(XX, feature_index) ==
    LET unique_values == UniqueValues(XX, feature_index)
    IN IF \A val \in unique_values : IsNumber(val)
       THEN LET sorted_vals == Sorted(unique_values)
            IN {[i \in 1..(Len(sorted_vals) - 1) |->
                     Midpoint(sorted_vals[i], sorted_vals[i + 1])]}
       ELSE Perms(unique_values)

\* A candidate that is also taken when one of its parts is empty
TryThresholdAllowsEmpty(best, XX, yy, feature_index, threshold) ==
    IF best.exc # "none" THEN best
    ELSE LET s == SplitDataset(XX, yy, feature_index, threshold)
         IN IF s.exc # "none" THEN [best EXCEPT !.exc = s.exc]
            ELSE LET gain == SplitGain(CounterValues(yy), CounterValues(s.y_left),
                                       CounterValues(s.y_right), Gains)
                 IN IF FGt(gain, best.gain)
                    THEN [gain |-> gain, feature |-> feature_index,
                          threshold |-> threshold,
                          splits |-> <<<<s.X_left, s.y_left>>,
                                       <<s.X_right, s.y_right>>>>,
                          exc |-> "none"]
                    ELSE best

\* Lines 152-169: one candidate threshold
TryThreshold(best, XX, yy, feature_index, threshold) ==
    IF best.exc # "none" THEN best
    ELSE LET s == SplitDataset(XX, yy, feature_index, threshold)
         IN IF s.exc # "none" THEN [best EXCEPT !.exc = s.exc]
            ELSE IF Len(s.y_left) = 0 \/ Len(s.y_right) = 0 THEN best
            ELSE LET gain == SplitGain(CounterValues(yy), CounterValues(s.y_left),
                                       CounterValues(s.y_right), Gains)
                 IN IF FGt(gain, best.gain)
                    THEN [gain |-> gain, feature |-> feature_index,
                          threshold |-> threshold,
                          splits |-> <<<<s.X_left, s.y_left>>,
                                       <<s.X_right, s.y_right>>>>,
                          exc |-> "none"]
                    ELSE best

RECURSIVE TryThresholds(_, _, _, _, _, _)
\* The loop of line 151 from the i-th threshold on
TryThresholds(best, XX, yy, feature_index, thresholds, i) ==
    IF i > Len(thresholds) THEN best
    ELSE TryThresholds(TryThreshold(best, XX, yy, feature_index, thresholds[i]),
                       XX, yy, feature_index, thresholds, i + 1)

\* One pass of the loop of line 138: the running bests it can leave
TryFeature(best, XX, yy, feature_index) ==
    IF best.exc # "none" THEN {best}
    ELSE IF \E i \in DOMAIN XX : Len(XX[i]) <= feature_index
         THEN {[best EXCEPT !.exc = "IndexError"]}
         ELSE {TryThresholds(best, XX, yy, feature_index, thresholds, 1) :
                   thresholds \in Thresholds(XX, feature_index)}

RECURSIVE TryFeatures(_, _, _, _, _)
TryFeatures(bests, XX, yy, feature_index, n_features) ==
    IF feature_index >= n_features THEN bests
    ELSE TryFeatures(UNION {TryFeature(b, XX, yy, feature_index) : b \in bests},
                     XX, yy, feature_index + 1, n_features)

\* The results _best_split(X, y) can return
BestSplit(XX, yy) ==
    IF Len(XX) = 0 THEN {[Best0 EXCEPT !.exc = "IndexError"]}
    ELSE TryFeatures({Best0}, XX, yy, 0, Len(XX[1]))

---------------------------------------------------------------------------
(* _build_tree *)

Leaf(class) == [type |-> "leaf", class |-> class]
Error(e) == [type |-> "error", exc |-> e]
Node(feature_index, feature_name, threshold, left, right) ==
    [type |-> "node", feature_index |-> feature_index,
     feature_name |-> feature_name, threshold |-> threshold,
     left |-> left, right |-> right]

\* A leaf that resolves a tie to the label met last
MajorityLeafLastOnTie(yy) ==
    IF Len(yy) = 0 THEN Error("IndexError")
    ELSE Leaf(MostCommon([i \in DOMAIN yy |-> yy[Len(yy) + 1 - i]]))

\* Lines 182-183 and 188-189
MajorityLeaf(yy) ==
    IF Len(yy) = 0 THEN Error("IndexError") ELSE Leaf(MostCommon(yy))

\* A depth test that is late by one level
StopsAtBeyond(yy, depth) ==
    \/ max_depth # NoneInt /\ depth > max_depth
    \/ Cardinality(Range(yy)) = 1
    \/ Len(yy) < min_samples_split

\* Line 181
StopsAt(yy, depth) ==
    \/ max_depth # NoneInt /\ depth >= max_depth
    \/ Cardinality(Range(yy)) = 1
    \/ Len(yy) < min_samples_split

\* Lines 196-203, with the children built
MakeNode(b, names, left, right) ==
    IF left.type = "error" THEN left
    ELSE IF right.type = "error" THEN right
    ELSE IF ~names.none /\ names.list # <<>>
         THEN IF b.feature >= Len(names.list) THEN Error("IndexError")
              ELSE Node(b.feature, names.list[b.feature + 1], b.threshold,
                        left, right)
         ELSE Node(b.feature, NoneName, b.threshold, left, right)

RECURSIVE BuildTree(_, _, _, _)
\* The results _build_tree(X, y, depth) can return with self.feature_names
\* = names: trees, and Error(e) when it raises e
BuildTree(XX, yy, depth, names) ==
    IF StopsAt(yy, depth) THEN {MajorityLeaf(yy)}
    ELSE UNION {
           IF b.exc # "none" THEN {Error(b.exc)}
           ELSE IF b.gain = FZero \/ b.splits = NoSplits THEN {MajorityLeaf(yy)}
           ELSE {MakeNode(b, names, l, r) :
                   l \in BuildTree(b.splits[1][1], b.splits[1][2], depth + 1, names),
                   r \in BuildTree(b.splits[2][1], b.splits[2][2], depth + 1, names)}
           : b \in BestSplit(XX, yy)}

---------------------------------------------------------------------------
(* _predict_sample, predict *)

Returned(value) == [exc |-> "none", value |-> value]
Raised(e) == [exc |-> e, value |-> "none"]

\* A vote that puts the right branch's prediction first
VoteRightFirst(left_pred, right_pred) == MostCommon(<<right_pred, left_pred>>)

\* Counter([left_pred, right_pred]).most_common(1)[0][0], line 220
Vote(left_pred, right_pred) == MostCommon(<<left_pred, right_pred>>)

\* A routing that sends the values above a number threshold to the left
BranchAboveLeft(val, threshold) ==
    IF IsNumber(threshold)
    THEN IF ~IsNumber(val) THEN "TypeError"
         ELSE IF val.v > threshold.v THEN "left" ELSE "right"
    ELSE IF val = threshold THEN "left" ELSE "right"

\* Lines 222-233: the child a value that is not missing is routed to, or the
\* exception the comparison raises
Branch(val, threshold) ==
    IF IsNumber(threshold)
    THEN IF ~IsNumber(val) THEN "TypeError"
         ELSE IF val.v <= threshold.v THEN "left" ELSE "right"
    ELSE IF val = threshold THEN "left" ELSE "right"

RECURSIVE PredictSample(_, _)
PredictSample(node, sample) ==
    IF node.type = "none" THEN Raised("TypeError")
    ELSE IF node.type = "leaf" THEN Returned(node.class)
    ELSE IF Len(sample) <= node.feature_index THEN Raised("IndexError")
    ELSE LET val == sample[node.feature_index + 1]
             threshold == node.threshold
         IN IF val = None
            THEN LET left_pred == PredictSample(node.left, sample)
                     right_pred == PredictSample(node.right, sample)
                 IN IF left_pred.exc # "none" THEN left_pred
                    ELSE IF right_pred.exc # "none" THEN right_pred
                    ELSE Returned(Vote(left_pred.value, right_pred.value))
            ELSE IF Branch(val, threshold) = "TypeError" THEN Raised("TypeError")
            ELSE IF Branch(val, threshold) = "left"
                 THEN PredictSample(node.left, sample)
                 ELSE PredictSample(node.right, sample)

\* [self._predict_sample(node, sample) for sample in XX]: the list, or the
\* first exception
PredictAll(node, XX) ==
    LET preds == [i \in DOMAIN XX |-> PredictSample(node, XX[i])]
        bad == {i \in DOMAIN XX : preds[i].exc # "none"}
    IN IF bad # {}
       THEN Raised(preds[CHOOSE i \in bad : \A j \in bad : i <= j].exc)
       ELSE Returned([i \in DOMAIN XX |-> preds[i].value])

Predict(XX) == PredictAll(tree, XX)

---------------------------------------------------------------------------
(* _prune *)

\* sum(yp != yt for yp, yt in zip(y_pred, yy))
Mismatches(y_pred, yy) ==
    Cardinality({i \in DOMAIN Zip(y_pred, yy) : y_pred[i] # yy[i]})

\* XX.index(x): the first position (from 0) of a row equal to x
IndexOf(XX, x) == (CHOOSE i \in DOMAIN XX : XX[i] = x /\ \A j \in 1..(i - 1) : XX[j] # x) - 1

RECURSIVE CombinedLabels(_, _, _, _, _)
\* The loop of lines 269-279 from the i-th validation row on, with the
\* labels collected so far
CombinedLabels(node, XX, yy, i, combined_labels) ==
    IF i > Len(XX) THEN Returned(combined_labels)
    ELSE IF Len(XX[i]) <= node.feature_index THEN Raised("IndexError")
    ELSE LET val == XX[i][node.feature_index + 1]
         IN IF val = None
            THEN CombinedLabels(node, XX, yy, i + 1, combined_labels)
            ELSE IF IsNumber(node.threshold) /\ ~IsNumber(val)
            THEN Raised("TypeError")
            ELSE IF IndexOf(XX, XX[i]) >= Len(yy) THEN Raised("IndexError")
            ELSE CombinedLabels(node, XX, yy, i + 1,
                     Append(combined_labels, yy[IndexOf(XX, XX[i]) + 1]))

\* Lines 280-283
MajorityClass(combined_labels, yy) ==
    IF combined_labels # <<>> THEN Returned(MostCommon(combined_labels))
    ELSE IF yy = <<>> THEN Raised("IndexError")
    ELSE Returned(MostCommon(yy))

Pruned(node, e) == [tree |-> node, exc |-> e]

\* A collapse that is also undone when the error stays the same
TryCollapseRevertOnEqual(node, XX, yy) ==
    LET y_pred == PredictAll(node, XX)
        combined == CombinedLabels(node, XX, yy, 1, <<>>)
        majority_class == MajorityClass(combined.value, yy)
        leaf == Leaf(majority_class.value)
        error_before == Mismatches(y_pred.value, yy)
        error_after == Mismatches(PredictAll(leaf, XX).value, yy)
    IN IF y_pred.exc # "none" THEN Pruned(node, y_pred.exc)
       ELSE IF combined.exc # "none" THEN Pruned(node, combined.exc)
       ELSE IF majority_class.exc # "none" THEN Pruned(node, majority_class.exc)
       ELSE IF error_after >= error_before THEN Pruned(node, "none")
       ELSE Pruned(leaf, "none")

\* Lines 262-297 at a node whose children are both leaves: the node as the
\* call leaves it, and the exception it raised
TryCollapse(node, XX, yy) ==
    LET y_pred == PredictAll(node, XX)
        combined == CombinedLabels(node, XX, yy, 1, <<>>)
        majority_class == MajorityClass(combined.value, yy)
        leaf == Leaf(majority_class.value)
        error_before == Mismatches(y_pred.value, yy)
        error_after == Mismatches(PredictAll(leaf, XX).value, yy)
    IN IF y_pred.exc # "none" THEN Pruned(node, y_pred.exc)
       ELSE IF combined.exc # "none" THEN Pruned(node, combined.exc)
       ELSE IF majority_class.exc # "none" THEN Pruned(node, majority_class.exc)
       ELSE IF error_after > error_before THEN Pruned(node, "none")
       ELSE Pruned(leaf, "none")

RECURSIVE PruneNodeFirst(_, _, _)
\* A pruning that decides a node before it prunes the node's children
PruneNodeFirst(node, XX, yy) ==
    IF node.type = "none" THEN Pruned(node, "TypeError")
    ELSE IF node.type = "leaf" THEN Pruned(node, "none")
    ELSE LET top == IF node.left.type = "leaf" /\ node.right.type = "leaf"
                    THEN TryCollapse(node, XX, yy)
                    ELSE Pruned(node, "none")
         IN IF top.exc # "none" \/ top.tree.type = "leaf" THEN top
            ELSE LET l == PruneNodeFirst(node.left, XX, yy)
                     r == PruneNodeFirst(node.right, XX, yy)
                     afterLeft == [node EXCEPT !.left = l.tree]
                     afterBoth == [afterLeft EXCEPT !.right = r.tree]
                 IN IF l.exc # "none" THEN Pruned(afterLeft, l.exc)
                    ELSE Pruned(afterBoth, r.exc)

RECURSIVE Prune(_, _, _)
\* _prune(node, XX, yy): the node as the call leaves it (it is changed in
\* place, also when the call raises), and the exception it raised
Prune(node, XX, yy) ==
    IF node.type = "none" THEN Pruned(node, "TypeError")
    ELSE IF node.type = "leaf" THEN Pruned(node, "none")
    ELSE LET l == Prune(node.left, XX, yy)
             r == Prune(node.right, XX, yy)
             afterLeft == [node EXCEPT !.left = l.tree]
             afterBoth == [afterLeft EXCEPT !.right = r.tree]
         IN IF l.exc # "none" THEN Pruned(afterLeft, l.exc)
            ELSE IF r.exc # "none" THEN Pruned(afterBoth, r.exc)
            ELSE IF afterBoth.left.type = "leaf" /\ afterBoth.right.type = "leaf"
            THEN TryCollapse(afterBoth, XX, yy)
            ELSE Pruned(afterBoth, "none")

\* The collapse attempt at a node, found at path below the root of the
\* run: the node as the attempt finds it and as it leaves it
Attempt(path, node, XX, yy) ==
    [path |-> path, node |-> node, tree |-> TryCollapse(node, XX, yy).tree]

RECURSIVE PruneLogNodeFirst(_, _, _, _)
\* A run that attempts the collapse of a node before it prunes the children
PruneLogNodeFirst(node, path, XX, yy) ==
    IF node.type # "node" THEN <<>>
    ELSE LET l == Prune(node.left, XX, yy)
             r == Prune(node.right, XX, yy)
             afterBoth == [node EXCEPT !.left = l.tree, !.right = r.tree]
             left_log == PruneLogNodeFirst(node.left, Append(path, "left"), XX, yy)
             right_log == PruneLogNodeFirst(node.right, Append(path, "right"), XX, yy)
         IN IF l.exc # "none" THEN left_log
            ELSE IF r.exc # "none" THEN left_log \o right_log
            ELSE IF afterBoth.left.type = "leaf" /\ afterBoth.right.type = "leaf"
            THEN <<Attempt(path, afterBoth, XX, yy)>> \o left_log \o right_log
            ELSE left_log \o right_log

RECURSIVE PruneLog(_, _, _, _)
\* The collapse attempts of _prune(node, XX, yy), lines 258-297, in the
\* order in which the run makes them
PruneLog(node, path, XX, yy) ==
    IF node.type # "node" THEN <<>>
    ELSE LET l == Prune(node.left, XX, yy)
             r == Prune(node.right, XX, yy)
             afterBoth == [node EXCEPT !.left = l.tree, !.right = r.tree]
             left_log == PruneLog(node.left, Append(path, "left"), XX, yy)
             right_log == PruneLog(node.right, Append(path, "right"), XX, yy)
         IN IF l.exc # "none" THEN left_log
            ELSE IF r.exc # "none" THEN left_log \o right_log
            ELSE IF afterBoth.left.type = "leaf" /\ afterBoth.right.type = "leaf"
            THEN left_log \o right_log \o <<Attempt(path, afterBoth, XX, yy)>>
            ELSE left_log \o right_log

---------------------------------------------------------------------------
(* The calls *)

\* __init__(max_depth, min_samples_split), lines 57-61
Construct(d, m) ==
    /\ max_depth = d
    /\ min_samples_split = m
    /\ tree = NoTree
    /\ feature_names = NoneList
    /\ X = <<>> /\ y = <<>>
    /\ X_val = NoneList /\ y_val = NoneList
    /\ built = NoTree
    /\ before = NoTree
    /\ samples = <<>>
    /\ ret = <<>>
    /\ exc = "none"
    /\ pc = "init"

\* Lines 79-82 once _build_tree has returned b (or raised): self.tree as
\* fit leaves it, and the exception fit raised
AfterBuild(b, XXv, yyv) ==
    IF b.type = "error" THEN Pruned(tree, b.exc)
    ELSE IF ~XXv.none /\ ~yyv.none THEN Prune(b, XXv.list, yyv.list)
    ELSE Pruned(b, "none")

\* fit(XX, yy, names, XXv, yyv), lines 78-82, on the new instance, where
\* _build_tree returns b (or raises)
FitWith(b, XX, yy, names, XXv, yyv) ==
    /\ pc = "init"
    /\ feature_names' = names
    /\ built' = b
    /\ LET p == AfterBuild(b, XXv, yyv)
       IN tree' = p.tree /\ exc' = p.exc
    /\ before' = (IF b.type # "error" /\ ~XXv.none /\ ~yyv.none
                  THEN b ELSE NoTree)
    /\ X' = XX /\ y' = yy /\ X_val' = XXv /\ y_val' = yyv
    /\ samples' = <<>> /\ ret' = <<>>
    /\ pc' = "fit"
    /\ UNCHANGED <<max_depth, min_samples_split>>

Fit(XX, yy, names, XXv, yyv) ==
    \E b \in BuildTree(XX, yy, 0, names) : FitWith(b, XX, yy, names, XXv, yyv)

\* self._prune(self.tree, X_val, y_val) once more, with the validation data
\* fit was given
PruneAgain ==
    /\ pc # "init"
    /\ tree.type # "none"
    /\ ~X_val.none /\ ~y_val.none
    /\ LET p == Prune(tree, X_val.list, y_val.list)
       IN tree' = p.tree /\ exc' = p.exc
    /\ before' = tree
    /\ samples' = <<>> /\ ret' = <<>>
    /\ pc' = "prune"
    /\ UNCHANGED <<max_depth, min_samples_split, feature_names, X, y, X_val,
                   y_val, built>>

\* predict(XX), line 248
PredictCall(XX) ==
    /\ LET r == Predict(XX)
       IN exc' = r.exc /\ ret' = (IF r.exc = "none" THEN r.value ELSE <<>>)
    /\ samples' = XX
    /\ pc' = "predict"
    /\ UNCHANGED <<max_depth, min_samples_split, tree, feature_names, X, y,
                   X_val, y_val, built, before>>

\* self._best_split(XX, yy), lines 123-171, called directly
BestSplitCall(XX, yy) ==
    /\ \E b \in BestSplit(XX, yy) : ret' = b /\ exc' = b.exc
    /\ X' = XX /\ y' = yy
    /\ samples' = <<>>
    /\ pc' = "best_split"
    /\ UNCHANGED <<max_depth, min_samples_split, tree, feature_names, X_val,
                   y_val, built, before>>

\* self._gini(yy), lines 84-89, called directly
GiniCall(yy) ==
    /\ ret' = Gini(yy) /\ exc' = "none"
    /\ X' = <<>> /\ y' = yy
    /\ samples' = <<>>
    /\ pc' = "gini"
    /\ UNCHANGED <<max_depth, min_samples_split, tree, feature_names, X_val,
                   y_val, built, before>>

---------------------------------------------------------------------------
(* Bounds and input sets *)

DepthChoices == {NoneInt, 0, 1}
SplitChoices == {1, 2, 3}

Numbers == {Num(1), Num(2), Num(3)}
Values == {None} \cup Numbers \cup {Str("a"), Str("b")}

\* The tables of 1 to n rows over the given rows, and the label vectors of
\* the same length
Tables(rows, n) == UNION {[1..k -> rows] : k \in 1..n}
LabelsFor(XX) == [1..Len(XX) -> Labels]
RowsOver(vals) == {<<val>> : val \in vals}

---------------------------------------------------------------------------
(* Spec: a new classifier is fitted on a one-feature table of numbers,     *)
(* strings and missing values, without validation data, and then asked to  *)
(* predict.                                                                *)

Init == \E d \in DepthChoices, m \in SplitChoices : Construct(d, m)

FitTrain ==
    /\ pc = "init"
    /\ \E XX \in Tables(RowsOver(Values), MaxRows) : \E yy \in LabelsFor(XX) :
           Fit(XX, yy, NoneList, NoneList, NoneList)

\* predict on the training table, or on one sample
PredictAny ==
    \E XX \in {X} \cup {<<row>> : row \in RowsOver(Values)} : PredictCall(XX)

Next == FitTrain \/ PredictAny

Spec == Init /\ [][Next]_vars

---------------------------------------------------------------------------
(* SpecPrune: a new classifier is fitted on a one-feature table of         *)
(* numbers, with or without validation data, and its tree is then pruned   *)
(* again with the same validation data.                                    *)

InitPrune == \E d \in DepthChoices : Construct(d, 2)

ValTables == {<<>>} \cup Tables(RowsOver({None} \cup Numbers), MaxValRows)

\* Fit on every training table with every choice of validation data; the
\* tree is built once per training table
FitVal ==
    /\ pc = "init"
    /\ \E XX \in Tables(RowsOver(Numbers), MaxRows) : \E yy \in LabelsFor(XX) :
           \E b \in BuildTree(XX, yy, 0, NoneList) :
               \/ FitWith(b, XX, yy, NoneList, NoneList, NoneList)
               \/ \E XXv \in ValTables : \E yyv \in LabelsFor(XXv) :
                      FitWith(b, XX, yy, NoneList, List(XXv), List(yyv))

NextPrune == FitVal \/ PruneAgain

SpecPrune == InitPrune /\ [][NextPrune]_vars

---------------------------------------------------------------------------
(* SpecInput: a new classifier is fitted on input that may be malformed:   *)
(* an empty table, rows of one and of two features in one table, a label   *)
(* vector of another length, a list of feature names of another length.    *)

InputRows ==
    {<<Num(1)>>, <<Num(2)>>, <<Num(1), Num(2)>>, <<Num(2), Num(1)>>}
InputNames ==
    {NoneList, List(<<>>), List(<<"f0">>), List(<<"f0", "f1">>)}

FitInput ==
    /\ pc = "init"
    /\ \E XX \in {<<>>} \cup Tables(InputRows, MaxRows - 1) :
           \E k \in 0..MaxRows : \E yy \in [1..k -> Labels] :
               \E names \in InputNames :
                   Fit(XX, yy, names, NoneList, NoneList)

NextInput == FitInput

SpecInput == Init /\ [][NextInput]_vars

---------------------------------------------------------------------------
(* SpecWeather: the example of the notebook's last cell, lines 896-912.    *)

\* The values of one column of the table, missing or not
ColumnValues(XX, feature_index) == {XX[i][feature_index + 1] : i \in DOMAIN XX}
\* Every sample made of values the table holds in the same column
WeatherSamples ==
    {<<o, h, t, w>> : o \in ColumnValues(WeatherX, 0), h \in ColumnValues(WeatherX, 1),
                      t \in ColumnValues(WeatherX, 2), w \in ColumnValues(WeatherX, 3)}

\* tree = DecisionTreeClassifier(max_depth=3), line 908
InitWeather == Construct(3, 2)

\* Line 909
FitWeather ==
    /\ pc = "init"
    /\ Fit(WeatherX, WeatherY, WeatherNames, NoneList, NoneList)

\* tree.predict([sample]), line 912, for the sample of line 911 and others
PredictWeather ==
    /\ pc # "init"
    /\ \E sample \in WeatherSamples : PredictCall(<<sample>>)

NextWeather == FitWeather \/ PredictWeather

SpecWeather == InitWeather /\ [][NextWeather]_vars

---------------------------------------------------------------------------
(* SpecSplit: _best_split is called on a table of numbers of one or of two *)
(* features.  The result does not depend on the order of the rows as long  *)
(* as the labels move with them, so the tables are taken with their rows   *)
(* in ascending order.                                                     *)

SplitRowsOf ==
    {RowsOver(Numbers), {<<a, b>> : a \in {Num(1), Num(2)}, b \in {Num(1), Num(2)}}}
RowBefore(r1, r2) ==
    \/ r1[1].v < r2[1].v
    \/ r1[1].v = r2[1].v /\ (Len(r1) = 1 \/ r1[2].v <= r2[2].v)
AscendingTables(rows, n) ==
    {XX \in Tables(rows, n) :
        \A i \in 1..(Len(XX) - 1) : RowBefore(XX[i], XX[i + 1])}

\* tree = DecisionTreeClassifier()
InitSplit == Construct(NoneInt, 2)

SplitAny ==
    /\ pc = "init"
    /\ \E rows \in SplitRowsOf : \E XX \in AscendingTables(rows, MaxSplitRows) :
           \E yy \in LabelsFor(XX) : BestSplitCall(XX, yy)

NextSplit == SplitAny

SpecSplit == InitSplit /\ [][NextSplit]_vars

---------------------------------------------------------------------------
(* SpecCollapse: a new classifier is fitted on a short one-feature table   *)
(* of numbers, with a validation table long enough to hold three equal     *)
(* rows.                                                                   *)

CollapseTables ==
    Tables(RowsOver({None} \cup Numbers), MaxCollapseRows)

FitCollapse ==
    /\ pc = "init"
    /\ \E XX \in Tables(RowsOver(Numbers), MaxRows - 1) : \E yy \in LabelsFor(XX) :
           \E b \in BuildTree(XX, yy, 0, NoneList) :
               \E XXv \in CollapseTables : \E yyv \in LabelsFor(XXv) :
                   FitWith(b, XX, yy, NoneList, List(XXv), List(yyv))

NextCollapse == FitCollapse

SpecCollapse == InitSplit /\ [][NextCollapse]_vars

---------------------------------------------------------------------------
(* SpecDecide: a new classifier with the default parameters is fitted on   *)
(* a one-feature table of numbers with validation data, so that _prune     *)
(* runs on the tree.  The tree does not depend on the order of the rows    *)
(* as long as the labels move with them, so the training tables are taken  *)
(* with their rows in ascending order.                                     *)

FitDecide ==
    /\ pc = "init"
    /\ \E XX \in AscendingTables(RowsOver(Numbers), MaxRows) :
           \E yy \in LabelsFor(XX) :
               \E b \in BuildTree(XX, yy, 0, NoneList) :
                   \E XXv \in ValTables : \E yyv \in LabelsFor(XXv) :
                       FitWith(b, XX, yy, NoneList, List(XXv), List(yyv))

NextDecide == FitDecide

SpecDecide == InitSplit /\ [][NextDecide]_vars

---------------------------------------------------------------------------
(* SpecGini: _gini is called on a label vector of up to five distinct      *)
(* labels.                                                                 *)

GiniAny ==
    /\ pc = "init"
    /\ \E n \in 1..MaxGiniLen : \E yy \in [1..n -> GiniLabels] : GiniCall(yy)

NextGini == GiniAny

SpecGini == InitSplit /\ [][NextGini]_vars

---------------------------------------------------------------------------
(* What the claims speak of *)

IsTree(node) == node.type \in {"leaf", "node"}

RECURSIVE Depth(_)
\* The number of internal nodes on the longest path from node to a leaf
Depth(node) ==
    IF node.type # "node" THEN 0
    ELSE 1 + (IF Depth(node.left) >= Depth(node.right)
              THEN Depth(node.left) ELSE Depth(node.right))

RECURSIVE Subtrees(_)
Subtrees(node) ==
    IF node.type # "node" THEN {node}
    ELSE {node} \cup Subtrees(node.left) \cup Subtrees(node.right)

RECURSIVE NodeSubsets(_, _, _)
\* Every node of the tree with the rows and labels that reach it when the
\* table is partitioned by the splits the tree stores
NodeSubsets(node, XX, yy) ==
    IF node.type # "node" THEN {[node |-> node, X |-> XX, y |-> yy]}
    ELSE LET s == SplitDataset(XX, yy, node.feature_index, node.threshold)
         IN {[node |-> node, X |-> XX, y |-> yy]}
            \cup (IF s.exc # "none" THEN {}
                  ELSE NodeSubsets(node.left, s.X_left, s.y_left)
                       \cup NodeSubsets(node.right, s.X_right, s.y_right))

LeafSubsets(node, XX, yy) == {e \in NodeSubsets(node, XX, yy) : e.node.type = "leaf"}

\* The validation rows the tree mispredicts
ValErrors(node) == Mismatches(PredictAll(node, X_val.list).value, y_val.list)

---------------------------------------------------------------------------
(* C1, under SpecPrune *)

\* C1: when fit has pruned the tree, the tree mispredicts no more
\* validation rows than the tree _build_tree returned.
C1_PruneNeverRaisesValError ==
    (pc = "fit" /\ exc = "none" /\ IsTree(before))
        => ValErrors(tree) <= ValErrors(before)

---------------------------------------------------------------------------
(* C2, under SpecPrune *)

\* C2: fit with X_val = [] and y_val = [] raises nothing and leaves the tree
\* that _build_tree returned, whatever that tree is.
C2_EmptyValidationIsNoOp ==
    (pc = "fit" /\ IsTree(built) /\ X_val = List(<<>>) /\ y_val = List(<<>>))
        => (exc = "none" /\ tree = built)

---------------------------------------------------------------------------
(* C3, under SpecInput *)

Malformed(XX, yy, names) ==
    \/ Len(XX) = 0
    \/ Len(yy) # Len(XX)
    \/ \E i, j \in DOMAIN XX : Len(XX[i]) # Len(XX[j])
    \/ ~names.none /\ Len(XX) > 0 /\ Len(names.list) # Len(XX[1])

\* C3: fit on an empty table, on labels of another length than the table,
\* on rows of different lengths or with a name list of another length than
\* the rows raises an error and stores no tree.
C3_MalformedInputIsReported ==
    (pc = "fit" /\ Malformed(X, y, feature_names))
        => (exc # "none" /\ tree.type = "none")

---------------------------------------------------------------------------
(* C4, under SpecPrune *)

\* C4: with max_depth configured, the tree fit leaves, pruned or not, and
\* the tree a later _prune leaves have depth at most max_depth; with
\* max_depth = 0 the tree is a single leaf.
C4_DepthWithinMaxDepth ==
    (pc \in {"fit", "prune"} /\ max_depth # NoneInt /\ IsTree(tree))
        => /\ Depth(tree) <= max_depth
           /\ Depth(built) <= max_depth
           /\ (max_depth = 0 => tree.type = "leaf")

\* The depth limit cuts a table that would grow two levels
C4_Witness ==
    /\ pc = "fit" /\ exc = "none" /\ max_depth = 1 /\ X_val.none
    /\ X = <<<<Num(1)>>, <<Num(2)>>, <<Num(3)>>>> /\ y = <<"A", "B", "A">>
    /\ Depth(tree) = 1

---------------------------------------------------------------------------
(* C5, under SpecPrune *)

\* C5: _prune on a tree that _prune has processed with the same validation
\* data leaves every node as it was.
C5_PruneIsIdempotent == pc = "prune" => tree = before

\* The first pruning collapsed a node and kept another, and the second
\* pruning has run
C5_Witness ==
    /\ pc = "prune" /\ exc = "none"
    /\ Depth(built) = 2 /\ Depth(before) = 1 /\ Depth(tree) = 1

---------------------------------------------------------------------------
(* C6, under Spec *)

\* C6: where the sample's value at a node's feature is missing, the
\* prediction from that node is the label both subtrees agree on, and the
\* left subtree's prediction when they differ; predict returns it.
C6_MissingValueTakesLeftOnTie ==
    /\ \A node \in Subtrees(tree) : \A row \in RowsOver(Values) :
          (node.type = "node" /\ row[node.feature_index + 1] = None)
              => LET l == PredictSample(node.left, row)
                     r == PredictSample(node.right, row)
                 IN /\ l.exc = "none" /\ r.exc = "none"
                    /\ PredictSample(node, row) =
                           Returned(IF l.value = r.value THEN r.value ELSE l.value)
    /\ (pc = "predict" /\ tree.type = "node" /\ samples = <<<<None>>>>)
           => (exc = "none" /\ ret = <<PredictSample(tree.left, <<None>>).value>>)

\* predict on a sample with a missing value whose branches disagree
C6_Witness ==
    /\ pc = "predict" /\ exc = "none" /\ tree.type = "node"
    /\ samples = <<<<None>>>>
    /\ PredictSample(tree.left, <<None>>) # PredictSample(tree.right, <<None>>)
    /\ ret = <<PredictSample(tree.left, <<None>>).value>>

---------------------------------------------------------------------------
(* C7, under SpecWeather *)

\* C7: after fit on the weather table with max_depth = 3, predict on
\* [Rainy, Normal, 70, False] returns [Yes], whichever tree the order of
\* the candidate thresholds made.
C7_WeatherSampleIsYes ==
    (pc = "predict" /\ samples = <<WeatherSample>>)
        => (exc = "none" /\ ret = <<"Yes">>)

C7_Witness ==
    /\ pc = "predict" /\ samples = <<WeatherSample>> /\ ret = <<"Yes">>
    /\ max_depth = 3 /\ X = WeatherX /\ Depth(tree) = 3

---------------------------------------------------------------------------
(* C8, under Spec *)

\* The threshold of an internal node has the kind of its feature, as the
\* rows reaching the node show it
KindFollowsFeature(e) ==
    LET unique_values == UniqueValues(e.X, e.node.feature_index)
    IN IF \A val \in unique_values : IsNumber(val)
       THEN IsNumber(e.node.threshold)
       ELSE ~IsNumber(e.node.threshold) /\ e.node.threshold \in unique_values

\* C8: fit on a well-formed table builds a tree in which every threshold
\* has the kind of its feature: a midpoint where all observed values are
\* numbers, an observed value compared by equality where any is not, also
\* where numbers and strings are mixed.
C8_SplitKindFollowsFeature ==
    pc = "fit"
        => /\ IsTree(built)
           /\ \A e \in NodeSubsets(built, X, y) :
                  e.node.type = "node" => KindFollowsFeature(e)

---------------------------------------------------------------------------
(* C9, under Spec *)

\* C9: with no max_depth and min_samples_split = 1, each training row that
\* the splits of the tree carry to a leaf is predicted as that leaf's class,
\* which is the row's own label when the rows of the leaf share one label;
\* predict on the training table returns these predictions.
C9_TrainingRowsReachTheirLeaf ==
    (max_depth = NoneInt /\ min_samples_split = 1 /\ IsTree(tree))
        => \A e \in LeafSubsets(tree, X, y) : \A j \in DOMAIN e.X :
              /\ PredictSample(tree, e.X[j]) = Returned(e.node.class)
              /\ Cardinality(Range(e.y)) = 1 => e.node.class = e.y[j]
              /\ (pc = "predict" /\ samples = X /\ exc = "none")
                     => \A i \in DOMAIN X :
                            X[i] = e.X[j] => ret[i] = e.node.class

\* predict on a training table of strings that grew a tree gives back the
\* training labels
C9_Witness ==
    /\ pc = "predict" /\ exc = "none" /\ samples = X /\ ret = y
    /\ max_depth = NoneInt /\ min_samples_split = 1
    /\ tree.type = "node" /\ ~IsNumber(tree.threshold)

---------------------------------------------------------------------------
(* C10, under Spec *)

\* class is a most frequent label of yy and, among the most frequent, the
\* one that comes first in yy
IsFirstMode(class, yy) ==
    /\ class \in Range(yy)
    /\ \A m \in Range(yy) :
          /\ Count(yy, m) <= Count(yy, class)
          /\ Count(yy, m) = Count(yy, class)
                 => FirstIndex(yy, class) <= FirstIndex(yy, m)

\* C10: every leaf of the tree _build_tree returns carries the most
\* frequent label of the labels that reached it, the first of them in that
\* vector on a tie.
C10_LeafClassIsFirstMode ==
    (pc = "fit" /\ IsTree(built))
        => \A e \in LeafSubsets(built, X, y) : IsFirstMode(e.node.class, e.y)

\* A leaf made because no threshold splits its rows, on a tie of labels
C10_Witness ==
    /\ pc = "fit" /\ max_depth = NoneInt /\ min_samples_split = 1
    /\ X = <<<<Num(1)>>, <<Num(1)>>>> /\ y = <<"B", "A">>
    /\ built = Leaf("B")

---------------------------------------------------------------------------
(* C11, under SpecSplit *)

\* The sum of the squared counts of a label vector
SquaredCounts(yy) ==
    LET counts == CounterValues(yy)
        acc[i \in 0..Len(counts)] ==
            IF i = 0 THEN 0 ELSE acc[i - 1] + counts[i] * counts[i]
    IN acc[Len(counts)]

\* The candidates of _best_split(XX, yy) for a table of numbers, in the
\* order in which they are met: feature by feature, midpoints ascending
MidpointsOf(XX, feature_index) ==
    CHOOSE thresholds \in Thresholds(XX, feature_index) : TRUE
CandidatesAt(XX, yy, f) ==
    {[feature |-> f, at |-> i, threshold |-> MidpointsOf(XX, f)[i],
      parts |-> SplitDataset(XX, yy, f, MidpointsOf(XX, f)[i])] :
        i \in DOMAIN MidpointsOf(XX, f)}
Candidates(XX, yy) ==
    UNION {CandidatesAt(XX, yy, f) : f \in 0..(Len(XX[1]) - 1)}
MetBefore(c1, c2) ==
    c1.feature < c2.feature \/ (c1.feature = c2.feature /\ c1.at < c2.at)

\* The gain of a candidate c with parts of l and r rows out of n is
\*     (1 - SquaredCounts(yy) / Len(yy)^2) - (1 - Score(c) / (n * l * r))
\* (parent impurity minus size-weighted child impurity), in whole numbers
Score(c) ==
    SquaredCounts(c.parts.y_left) * Len(c.parts.y_right)
        + SquaredCounts(c.parts.y_right) * Len(c.parts.y_left)
Weight(c) ==
    (Len(c.parts.y_left) + Len(c.parts.y_right))
        * Len(c.parts.y_left) * Len(c.parts.y_right)
SplitsBothWays(c) == Len(c.parts.y_left) > 0 /\ Len(c.parts.y_right) > 0
GainIsPositive(c, yy) ==
    Score(c) * Len(yy) * Len(yy) > SquaredCounts(yy) * Weight(c)
GainIsGreater(c1, c2) == Score(c1) * Weight(c2) > Score(c2) * Weight(c1)

\* The candidates that may be returned, and the one that is to be
Usable(XX, yy) ==
    {c \in Candidates(XX, yy) : SplitsBothWays(c) /\ GainIsPositive(c, yy)}
IsFirstBest(c, XX, yy) ==
    /\ c \in Usable(XX, yy)
    /\ \A c2 \in Usable(XX, yy) :
          /\ ~GainIsGreater(c2, c)
          /\ (~GainIsGreater(c, c2) /\ c2 # c) => MetBefore(c, c2)

\* C11: _best_split returns a candidate only if its gain is greater than
\* zero and both of its parts are non-empty; the candidate it returns has
\* the greatest gain of all such candidates and, among those of that gain,
\* is the one met first (lowest feature index, then lowest midpoint); when
\* no candidate has a gain greater than zero it returns no split, and
\* _build_tree makes the node a leaf.
C11_BestSplitIsFirstOfGreatestGain ==
    (pc = "best_split" /\ exc = "none")
        => IF Usable(X, y) = {}
           THEN /\ ret.splits = NoSplits /\ ret.feature = NoneInt
                /\ \A b \in BuildTree(X, y, 0, NoneList) : b.type = "leaf"
           ELSE \E c \in Usable(X, y) :
                    /\ IsFirstBest(c, X, y)
                    /\ ret.feature = c.feature
                    /\ ret.threshold = c.threshold
                    /\ ret.splits = <<<<c.parts.X_left, c.parts.y_left>>,
                                      <<c.parts.X_right, c.parts.y_right>>>>

---------------------------------------------------------------------------
(* C12, under SpecCollapse *)

\* The labels of the validation rows that have a value at the feature, each
\* row with its own label
OwnLabels(XX, yy, feature_index) ==
    LET Eligible(p) == p[1][feature_index + 1] # None
    IN Column(SelectSeq(Zip(XX, yy), Eligible), 2)
OwnMajority(XX, yy, feature_index) ==
    IF OwnLabels(XX, yy, feature_index) # <<>>
    THEN MostCommon(OwnLabels(XX, yy, feature_index))
    ELSE MostCommon(yy)

\* C12: the leaf that _prune puts in the place of an internal node carries
\* the majority label of the validation rows that have a value at the
\* node's feature, each row counted with its own label, also when several
\* equal rows have different labels; and the majority label of all
\* validation labels when no row has a value there.
C12_CollapseLabelIsMajorityOfOwnLabels ==
    (pc = "fit" /\ exc = "none" /\ before.type = "node" /\ tree.type = "leaf")
        => tree.class = OwnMajority(X_val.list, y_val.list, before.feature_index)

---------------------------------------------------------------------------
(* C13, under SpecDecide *)

\* A dict with the keys of a leaf, or with the keys of an internal node
WellFormed(node) ==
    \/ node.type = "leaf" /\ DOMAIN node = {"type", "class"}
    \/ /\ node.type = "node"
       /\ DOMAIN node = {"type", "feature_index", "feature_name", "threshold",
                         "left", "right"}

\* The node n as it is when its collapse is attempted: its children pruned
AtAttempt(n, XX, yy) ==
    [n EXCEPT !.left = Prune(n.left, XX, yy).tree,
              !.right = Prune(n.right, XX, yy).tree]
BothLeaves(node) == node.left.type = "leaf" /\ node.right.type = "leaf"
\* The label of the leaf that is tried in the place of node, and the
\* mismatches over the validation set when predicting from a node
CollapseLabel(node, XX, yy) ==
    MajorityClass(CombinedLabels(node, XX, yy, 1, <<>>).value, yy).value
ErrorAt(node, XX, yy) == Mismatches(PredictAll(node, XX).value, yy)
Reverts(node, XX, yy) ==
    ErrorAt(Leaf(CollapseLabel(node, XX, yy)), XX, yy) > ErrorAt(node, XX, yy)

\* What _prune(n, XX, yy) leaves of the internal node n when it returns
DecidedAsClaimed(n, XX, yy) ==
    LET node == AtAttempt(n, XX, yy)
        after == Prune(n, XX, yy)
    IN after.exc = "none"
           => IF ~BothLeaves(node) THEN after.tree = node
              ELSE IF Reverts(node, XX, yy)
              THEN /\ after.tree.type = "node"
                   /\ after.tree.feature_index = n.feature_index
                   /\ after.tree.feature_name = n.feature_name
                   /\ after.tree.threshold = n.threshold
                   /\ after.tree.left = node.left
                   /\ after.tree.right = node.right
              ELSE after.tree = Leaf(CollapseLabel(node, XX, yy))

---------------------------------------------------------------------------
(* C14, under SpecDecide *)

\* path leads from a node to the node that path2 leads to, or above it
IsPrefix(path, path2) ==
    Len(path) <= Len(path2) /\ \A i \in DOMAIN path : path[i] = path2[i]

RECURSIVE HasPath(_, _)
HasPath(node, path) ==
    \/ path = <<>>
    \/ node.type = "node" /\ HasPath(node[Head(path)], Tail(path))
RECURSIVE At(_, _)
\* The node that path leads to from node
At(node, path) == IF path = <<>> THEN node ELSE At(node[Head(path)], Tail(path))

RECURSIVE Put(_, _, _)
\* node with new in the place of the node that path leads to
Put(node, path, new) ==
    IF path = <<>> THEN new
    ELSE [node EXCEPT ![Head(path)] = Put(node[Head(path)], Tail(path), new)]
\* The tree after the first i attempts of the log of a run on node
Replay(node, log, i) ==
    LET acc[k \in 0..i] ==
            IF k = 0 THEN node ELSE Put(acc[k - 1], log[k].path, log[k].tree)
    IN acc[i]

\* The attempts of the last _prune run
LastLog == PruneLog(before, <<>>, X_val.list, y_val.list)

\* The attempts of a run on node are those of log
BottomUp(node, log, XX, yy) ==
    /\ \A i, j \in DOMAIN log : i < j => ~IsPrefix(log[i].path, log[j].path)
    /\ \A i \in DOMAIN log :
          /\ HasPath(node, log[i].path)
          /\ At(node, log[i].path).type = "node"
          /\ BothLeaves(log[i].node)
          /\ log[i].node = At(Replay(node, log, i - 1), log[i].path)
Unchanged(final, log) ==
    \A i \in DOMAIN log :
        HasPath(final, log[i].path) => At(final, log[i].path) = log[i].tree

\* C14: in one _prune run every internal node gets at most one collapse
\* decision, taken after the decisions of all nodes of its two subtrees;
\* a collapse is attempted only at a node whose two children are leaves
\* at that moment; and once the decision of a node is taken, neither the
\* node nor a node of its subtree is changed for the rest of the run.
C14_OneDecisionBottomUp ==
    (pc \in {"fit", "prune"} /\ before.type = "node")
        => /\ BottomUp(before, LastLog, X_val.list, y_val.list)
           /\ exc = "none" =>
                  /\ tree = Replay(before, LastLog, Len(LastLog))
                  /\ Unchanged(tree, LastLog)

\* A run of two decisions: the collapse of a child, then that of the root
C14_Witness ==
    /\ pc = "fit" /\ exc = "none" /\ before.type = "node"
    /\ Len(LastLog) = 2
    /\ LastLog[1].path # <<>> /\ LastLog[1].tree.type = "leaf"
    /\ LastLog[2].path = <<>>

---------------------------------------------------------------------------
(* C15, under Spec *)

\* The rows that reach the two children of an internal node are fewer than
\* those that reach the node, and neither child is left without rows
ChildrenShrink(e) ==
    LET s == SplitDataset(e.X, e.y, e.node.feature_index, e.node.threshold)
    IN /\ s.exc = "none"
       /\ 0 < Len(s.y_left) /\ Len(s.y_left) < Len(e.y)
       /\ 0 < Len(s.y_right) /\ Len(s.y_right) < Len(e.y)

\* C15: fit comes to an end on every non-empty training table, also with
\* no max_depth and min_samples_split = 1: every call of _build_tree gets
\* at least one row, a recursive call gets fewer rows than the call that
\* made it (no call ever finds the empty label vector that raises
\* IndexError), and the depth of the recursion is at most the number of
\* training rows.
C15_BuildTreeShrinksRowSets ==
    pc = "fit"
        => /\ exc # "IndexError"
           /\ IsTree(built) \/ built = Error(exc)
           /\ IsTree(built) =>
                  /\ Depth(built) <= Len(X)
                  /\ \A e \in NodeSubsets(built, X, y) :
                         /\ Len(e.y) > 0 /\ Len(e.X) = Len(e.y)
                         /\ e.node.type = "node" => ChildrenShrink(e)

\* Three rows that take two splits, one inside the other, with no
\* max_depth and min_samples_split = 1
C15_Witness ==
    /\ pc = "fit" /\ exc = "none"
    /\ max_depth = NoneInt /\ min_samples_split = 1
    /\ Len(X) = MaxRows /\ Depth(built) = MaxRows - 1

---------------------------------------------------------------------------
(* C16, under SpecGini *)

\* 2^-52, the distance from 1 to the next double above it
Rounding ==
    LET t == FDiv(1, 2^13)
    IN FMul(FMul(t, t), FMul(t, t))
CloseTo(a, b) == FAbsGe(Rounding, FSub(a, b))

\* The doubles nearest to 1 - (sum of squared frequencies) of yy and to
\* 1 - 1/k
TrueGini(yy) ==
    FDiv(Len(yy) * Len(yy) - SquaredCounts(yy), Len(yy) * Len(yy))
Greatest(k) == FDiv(k - 1, k)
AllEquallyOften(yy) ==
    \A l, m \in Range(yy) : Count(yy, l) = Count(yy, m)

====
